---- MODULE Spec2Model ----
(***************************************************************************)
(* Model of package retries (src/retries/retry.go, lines 1-160): the       *)
(* generic Retry wrapper around retry.Do of github.com/avast/retry-go,     *)
(* the classifier checkResAndErr, the RetryIf callback retryAction and     *)
(* the package-level counter count read by GetCount.                       *)
(*                                                                         *)
(* retry.Do is a dependency, not part of the repository.  Its loop is      *)
(* modelled as the library implements it (v3.0.0, the version the README   *)
(* names): default Config.attempts = 10, lastErrorOnly = false, the        *)
(* RetryIf callback is consulted after EVERY failed attempt (the last one  *)
(* included) and before the "last attempt - don't wait" test, and the      *)
(* error returned on failure is the whole error log (type retry.Error).    *)
(***************************************************************************)
EXTENDS Integers, Sequences, FiniteSets, TLC

VARIABLES
    pc,          \* position of the Run: "idle", "call", "wait", "done"
    count,       \* package variable count (retry.go:29)
    n,           \* retry.Do loop index (0-based)
    attempts,    \* retry.Do config.attempts of the current Run
    res,         \* Retry's local res (retry.go:71)
    errorLog,    \* retry.Do errorLog, one slot per attempt
    retErr,      \* error returned by Retry
    optAttempts, \* retry.Attempts(k) the caller put in opts (0: no option)
    opKind,      \* which operation f the caller supplied
    ctxDone,     \* the caller's ctx has been cancelled
    calls,       \* history: invocations of f in the current Run
    firstOut,    \* history: what f returned on attempt 1
    lastOut,     \* history: what f returned on the latest attempt
    nRecov,      \* history: attempts whose checked error was recoverable
    unrecAt,     \* history: first attempt whose checked error was marked unrecoverable (0: none)
    cancelWait1, \* history: ctx was cancelled during the wait after attempt 1
    cpc,         \* concurrent Runs: position of each goroutine's Run
    cn,          \* concurrent Runs: retry.Do loop index of each Run
    creg,        \* concurrent Runs: the value of count each goroutine loaded for count++
    cerr,        \* concurrent Runs: the error each Run's retryAction is handling
    cnRecov,     \* history: attempts of each Run whose checked error was recoverable
    reported     \* history: count as each Run found it on completion

\* state of the single sequential caller (all but the shared count)
svars == <<pc, n, attempts, res, errorLog, retErr, optAttempts, opKind,
           ctxDone, calls, firstOut, lastOut, nRecov, unrecAt, cancelWait1>>

\* state of the goroutines that call Retry concurrently
cvars == <<cpc, cn, creg, cerr, cnRecov, reported>>

vars == <<count, svars, cvars>>

\* the goroutines of the concurrent specification
Procs == {1, 2}

(***************************************************************************)
(* Bounds and program constants                                            *)
(***************************************************************************)
\* largest retry.Attempts(k) a caller of the model passes in opts
MaxOptAttempts == 3

\* retry-go: Config.attempts default used by retry.Do when no Attempts option reaches it
DefaultAttempts == 10

\* "The function will retry up to 5 times by default" (retry.go:55)
DocDefaultAttempts == 5

OptAttempts == 0..MaxOptAttempts

\* http.Status* values the operations of the model answer with
Statuses == {102, 200, 301, 400, 401, 403, 404, 429, 500, 501, 503, 600}

(***************************************************************************)
(* Values: errors and results                                              *)
(***************************************************************************)
\* the nil error
NilErr == [marked |-> FALSE, ctx |-> "", cause |-> "nil"]

\* errors.New(name): a plain error value
NewError(name) == [marked |-> FALSE, ctx |-> "", cause |-> name]

\* fmt.Errorf("HTTP failed: %w", base)
Wrap(base) == [marked |-> FALSE, ctx |-> "HTTP failed", cause |-> base.cause]

ErrBadRequest == NewError("ErrBadRequest")
ErrForbidden == NewError("ErrForbidden")
ErrNotFound == NewError("ErrNotFound")
ErrNotImplemented == NewError("ErrNotImplemented")

\* retry.Unrecoverable(err): wraps err in unrecoverableError
Unrecoverable(err) == [err EXCEPT !.marked = TRUE]

\* retry.IsRecoverable(err): err is not an unrecoverableError
IsRecoverable(err) == ~err.marked

\* retry-go unpackUnrecoverable(err): the error inside the wrapper
unpackUnrecoverable(err) == [err EXCEPT !.marked = FALSE]

\* the zero value of T
Zero == [kind |-> "zero", status |-> 0, body |-> ""]

\* a value that is not an *http.Response
Value(b) == [kind |-> "value", status |-> 0, body |-> b]

\* &http.Response{StatusCode: s}
Resp(s) == [kind |-> "resp", status |-> s, body |-> ""]

\* error returned by Retry: nil, or the retry.Error log of the Run
NoError == [kind |-> "nil", log |-> <<>>]
RetryError(log) == [kind |-> "retry.Error", log |-> log]

(***************************************************************************)
(* The operations f the caller may supply                                  *)
(***************************************************************************)
\* what one invocation of an arbitrary f may return (res, err).  A zero res
\* comes only with an error: with T = *http.Response a nil res and a nil error
\* would make checkResAndErr dereference a nil pointer (retry.go:104)
Outcomes ==
    {[res |-> Value(b), err |-> NilErr] : b \in {"a", "b"}}
    \cup {[res |-> Resp(s), err |-> NilErr] : s \in Statuses}
    \cup {[res |-> Zero, err |-> NewError(e)] : e \in {"E1", "E2"}}
    \cup {[res |-> Resp(404), err |-> NewError("E1")],
          [res |-> Resp(200), err |-> Unrecoverable(NewError("E2"))],
          [res |-> Zero, err |-> Unrecoverable(NewError("E1"))]}

\* README TestAPIRetryBehavior: callCount++; 500 while callCount < 3, then 200
ScriptB(callCount) == [res |-> Resp(IF callCount < 3 THEN 500 ELSE 200), err |-> NilErr]

OpKinds == {"any", "scriptB"}

OpReturns(kind, made) == IF kind = "scriptB" THEN {ScriptB(made + 1)} ELSE Outcomes

(***************************************************************************)
(* checkResAndErr, retryAction, GetCount                                   *)
(***************************************************************************)
\* variant of checkResAndErr whose 403 case returns the 400 error
checkResAndErr_Swapped403(r, err) ==
    IF err = NilErr /\ r.kind = "resp"
    THEN CASE r.status = 501 -> [res |-> r, err |-> Unrecoverable(Wrap(ErrNotImplemented))]
           [] r.status = 400 -> [res |-> r, err |-> Unrecoverable(Wrap(ErrBadRequest))]
           [] r.status = 403 -> [res |-> r, err |-> Unrecoverable(Wrap(ErrBadRequest))]
           [] r.status = 404 -> [res |-> r, err |-> Unrecoverable(Wrap(ErrNotFound))]
           [] OTHER -> [res |-> r, err |-> err]
    ELSE [res |-> r, err |-> err]

\* variant of checkResAndErr that looks at the status whatever the error is
checkResAndErr_StatusFirst(r, err) ==
    IF r.kind = "resp"
    THEN CASE r.status = 501 -> [res |-> r, err |-> Unrecoverable(Wrap(ErrNotImplemented))]
           [] r.status = 400 -> [res |-> r, err |-> Unrecoverable(Wrap(ErrBadRequest))]
           [] r.status = 403 -> [res |-> r, err |-> Unrecoverable(Wrap(ErrForbidden))]
           [] r.status = 404 -> [res |-> r, err |-> Unrecoverable(Wrap(ErrNotFound))]
           [] OTHER -> [res |-> r, err |-> err]
    ELSE [res |-> r, err |-> err]

\* variant of checkResAndErr that replaces the operation's own error
checkResAndErr_ReplacesErr(r, err) ==
    IF err = NilErr
    THEN IF r.kind = "resp"
         THEN CASE r.status = 501 -> [res |-> r, err |-> Unrecoverable(Wrap(ErrNotImplemented))]
                [] r.status = 400 -> [res |-> r, err |-> Unrecoverable(Wrap(ErrBadRequest))]
                [] r.status = 403 -> [res |-> r, err |-> Unrecoverable(Wrap(ErrForbidden))]
                [] r.status = 404 -> [res |-> r, err |-> Unrecoverable(Wrap(ErrNotFound))]
                [] OTHER -> [res |-> r, err |-> err]
         ELSE [res |-> r, err |-> NilErr]
    ELSE [res |-> r, err |-> [err EXCEPT !.cause = "E1"]]

\* variant of checkResAndErr that returns the zero value with an error
checkResAndErr_ZeroOnError(r, err) ==
    IF err = NilErr
    THEN IF r.kind = "resp"
         THEN CASE r.status = 501 -> [res |-> Zero, err |-> Unrecoverable(Wrap(ErrNotImplemented))]
                [] r.status = 400 -> [res |-> Zero, err |-> Unrecoverable(Wrap(ErrBadRequest))]
                [] r.status = 403 -> [res |-> Zero, err |-> Unrecoverable(Wrap(ErrForbidden))]
                [] r.status = 404 -> [res |-> Zero, err |-> Unrecoverable(Wrap(ErrNotFound))]
                [] OTHER -> [res |-> r, err |-> err]
         ELSE [res |-> r, err |-> NilErr]
    ELSE [res |-> Zero, err |-> err]

\* variant of checkResAndErr that takes a redirect for a failure
checkResAndErr_RedirectFails(r, err) ==
    IF err = NilErr
    THEN IF r.kind = "resp"
         THEN CASE r.status = 501 -> [res |-> r, err |-> Unrecoverable(Wrap(ErrNotImplemented))]
                [] r.status = 400 -> [res |-> r, err |-> Unrecoverable(Wrap(ErrBadRequest))]
                [] r.status = 403 -> [res |-> r, err |-> Unrecoverable(Wrap(ErrForbidden))]
                [] r.status = 404 -> [res |-> r, err |-> Unrecoverable(Wrap(ErrNotFound))]
                [] r.status \in 300..399 -> [res |-> r, err |-> Unrecoverable(Wrap(ErrBadRequest))]
                [] OTHER -> [res |-> r, err |-> err]
         ELSE [res |-> r, err |-> NilErr]
    ELSE [res |-> r, err |-> err]

\* checkResAndErr: only a nil error makes the response be looked at, and of
\* the status codes only 501, 400, 403 and 404 are turned into errors
checkResAndErr(r, err) ==
    IF err = NilErr
    THEN IF r.kind = "resp"
         THEN CASE r.status = 501 -> [res |-> r, err |-> Unrecoverable(Wrap(ErrNotImplemented))]
                [] r.status = 400 -> [res |-> r, err |-> Unrecoverable(Wrap(ErrBadRequest))]
                [] r.status = 403 -> [res |-> r, err |-> Unrecoverable(Wrap(ErrForbidden))]
                [] r.status = 404 -> [res |-> r, err |-> Unrecoverable(Wrap(ErrNotFound))]
                [] OTHER -> [res |-> r, err |-> err]
         ELSE [res |-> r, err |-> NilErr]
    ELSE [res |-> r, err |-> err]

\* variant of retryAction that lets every error be retried
retryAction_AlwaysRetry(err) == TRUE

\* variant of retryAction that refuses every retry
retryAction_NeverRetry(err) == FALSE

\* retryAction, its result: retry exactly the recoverable errors
retryAction(err) == IsRecoverable(err)

\* variant of retryAction's counting that never increments
retryActionCount_NoIncrement(c, err) == c

\* retryAction, its effect on count: count++ when the error is recoverable
retryActionCount(c, err) == IF ~IsRecoverable(err) THEN c ELSE c + 1

\* variant of the reset at the start of Retry that keeps the old count
ResetCount_Keeps(c) == c

\* Retry: count = 0 before retry.Do is called
ResetCount(c) == 0

\* GetCount
GetCount == count

\* Retry hands retry.Do only RetryIf(retryAction): opts never reaches it, so
\* config.attempts keeps the library default whatever the caller passed
ConfigAttempts(opt) == DefaultAttempts

\* retry.Do: errorLog = make(Error, config.attempts)
EmptyLog(k) == [i \in 1..k |-> NilErr]

(***************************************************************************)
(* The state machine of one goroutine calling Retry, Run after Run         *)
(***************************************************************************)
NoOut == [res |-> Zero, err |-> NilErr]

Init ==
    /\ pc = "idle"
    /\ count = 0
    /\ n = 0
    /\ attempts = DefaultAttempts
    /\ res = Zero
    /\ errorLog = EmptyLog(DefaultAttempts)
    /\ retErr = NoError
    /\ optAttempts = 0
    /\ opKind = "any"
    /\ ctxDone = FALSE
    /\ calls = 0
    /\ firstOut = NoOut
    /\ lastOut = NoOut
    /\ nRecov = 0
    /\ unrecAt = 0
    /\ cancelWait1 = FALSE
    /\ cpc = [p \in Procs |-> "idle"]
    /\ cn = [p \in Procs |-> 0]
    /\ creg = [p \in Procs |-> 0]
    /\ cerr = [p \in Procs |-> NilErr]
    /\ cnRecov = [p \in Procs |-> 0]
    /\ reported = [p \in Procs |-> 0]

\* Retry(ctx, f, opts...) is entered: count = 0, then retry.Do sets up its
\* config and error log
Start ==
    /\ pc \in {"idle", "done"}
    /\ \E k \in OptAttempts, op \in OpKinds :
         /\ optAttempts' = k
         /\ opKind' = op
         /\ attempts' = ConfigAttempts(k)
         /\ errorLog' = EmptyLog(ConfigAttempts(k))
    /\ count' = ResetCount(count)
    /\ n' = 0
    /\ res' = Zero
    /\ retErr' = NoError
    /\ ctxDone' = FALSE
    /\ calls' = 0
    /\ firstOut' = NoOut
    /\ lastOut' = NoOut
    /\ nRecov' = 0
    /\ unrecAt' = 0
    /\ cancelWait1' = FALSE
    /\ pc' = IF n' < attempts' THEN "call" ELSE "done"
    /\ UNCHANGED cvars

\* one iteration of retry.Do's loop up to the wait: the closure runs f and
\* checkResAndErr; on an error the log slot is written, retryIf (retryAction)
\* is consulted, and the loop breaks on a refusal or on the last attempt
Attempt ==
    /\ pc = "call"
    /\ \E out \in OpReturns(opKind, calls) :
         LET chk == checkResAndErr(out.res, out.err)
             e == chk.err
             log == [errorLog EXCEPT ![n + 1] = unpackUnrecoverable(e)]
         IN /\ res' = chk.res
            /\ calls' = calls + 1
            /\ lastOut' = out
            /\ firstOut' = IF calls = 0 THEN out ELSE firstOut
            /\ nRecov' = IF e # NilErr /\ ~e.marked THEN nRecov + 1 ELSE nRecov
            /\ unrecAt' = IF e.marked /\ unrecAt = 0 THEN calls + 1 ELSE unrecAt
            /\ IF e = NilErr
               THEN /\ pc' = "done"
                    /\ retErr' = NoError
                    /\ UNCHANGED <<count, errorLog>>
               ELSE /\ errorLog' = log
                    /\ count' = retryActionCount(count, e)
                    /\ IF ~retryAction(e) \/ n = attempts - 1
                       THEN /\ pc' = "done"
                            /\ retErr' = RetryError(log)
                       ELSE /\ pc' = "wait"
                            /\ retErr' = retErr
    /\ UNCHANGED <<n, attempts, optAttempts, opKind, ctxDone, cancelWait1>>
    /\ UNCHANGED cvars

\* the backoff wait ends (time.After fires); n++ and the loop test.  The
\* caller's ctx is not given to retry.Do, so nothing else ends the wait
Wait ==
    /\ pc = "wait"
    /\ n' = n + 1
    /\ pc' = IF n' < attempts THEN "call" ELSE "done"
    /\ retErr' = IF n' < attempts THEN retErr ELSE RetryError(errorLog)
    /\ UNCHANGED <<count, attempts, res, errorLog, optAttempts, opKind, ctxDone,
                   calls, firstOut, lastOut, nRecov, unrecAt, cancelWait1>>
    /\ UNCHANGED cvars

\* the caller cancels ctx while the Run is in progress
Cancel ==
    /\ pc \in {"call", "wait"}
    /\ ~ctxDone
    /\ ctxDone' = TRUE
    /\ cancelWait1' = (pc = "wait" /\ calls = 1)
    /\ UNCHANGED <<pc, count, n, attempts, res, errorLog, retErr, optAttempts,
                   opKind, calls, firstOut, lastOut, nRecov, unrecAt>>
    /\ UNCHANGED cvars

Next == Start \/ Attempt \/ Wait \/ Cancel

Spec == Init /\ [][Next]_vars

\* the same Runs when every invocation of f returns and every wait ends
FairSpec == Spec /\ WF_vars(Attempt) /\ WF_vars(Wait)

(***************************************************************************)
(* Two goroutines calling Retry at the same time.  count is one package    *)
(* variable written without synchronisation: count = 0 is a store, and     *)
(* count++ is a load followed by a store, so an update can be lost.        *)
(***************************************************************************)
\* Retry is entered by goroutine p: count = 0, retry.Do starts its loop
CStart(p) ==
    /\ cpc[p] = "idle"
    /\ count' = ResetCount(count)
    /\ cpc' = [cpc EXCEPT ![p] = "call"]
    /\ UNCHANGED <<svars, cn, creg, cerr, cnRecov, reported>>

\* one attempt of p's Run up to retryAction's count++: f, checkResAndErr,
\* then either the return (nil error, or retryAction refuses) or the load
\* of count for the increment
CAttempt(p) ==
    /\ cpc[p] = "call"
    /\ \E out \in Outcomes :
         LET e == checkResAndErr(out.res, out.err).err
         IN IF e = NilErr \/ ~retryAction(e)
            THEN /\ cpc' = [cpc EXCEPT ![p] = "done"]
                 /\ reported' = [reported EXCEPT ![p] = count]
                 /\ UNCHANGED <<creg, cerr, cnRecov>>
            ELSE /\ cpc' = [cpc EXCEPT ![p] = "store"]
                 /\ creg' = [creg EXCEPT ![p] = count]
                 /\ cerr' = [cerr EXCEPT ![p] = e]
                 /\ cnRecov' = [cnRecov EXCEPT ![p] = @ + 1]
                 /\ UNCHANGED reported
    /\ UNCHANGED <<count, svars, cn>>

\* the store of count++ in p's retryAction (whose locals then go out of
\* scope), then retry.Do's last-attempt test
CStore(p) ==
    /\ cpc[p] = "store"
    /\ count' = retryActionCount(creg[p], cerr[p])
    /\ IF cn[p] = ConfigAttempts(0) - 1
       THEN /\ cpc' = [cpc EXCEPT ![p] = "done"]
            /\ reported' = [reported EXCEPT ![p] = count']
       ELSE /\ cpc' = [cpc EXCEPT ![p] = "wait"]
            /\ UNCHANGED reported
    /\ creg' = [creg EXCEPT ![p] = 0]
    /\ cerr' = [cerr EXCEPT ![p] = NilErr]
    /\ UNCHANGED <<svars, cn, cnRecov>>

\* p's wait between attempts ends
CWait(p) ==
    /\ cpc[p] = "wait"
    /\ cn' = [cn EXCEPT ![p] = @ + 1]
    /\ cpc' = [cpc EXCEPT ![p] = "call"]
    /\ UNCHANGED <<count, svars, creg, cerr, cnRecov, reported>>

NextConc == \E p \in Procs : CStart(p) \/ CAttempt(p) \/ CStore(p) \/ CWait(p)

SpecConc == Init /\ [][NextConc]_vars

TypeOK ==
    /\ pc \in {"idle", "call", "wait", "done"}
    /\ count \in 0..DefaultAttempts
    /\ n \in 0..DefaultAttempts
    /\ calls \in 0..DefaultAttempts
    /\ optAttempts \in OptAttempts
    /\ opKind \in OpKinds
    /\ ctxDone \in BOOLEAN

(***************************************************************************)
(* Vocabulary of the properties                                            *)
(***************************************************************************)
\* f returned a response with a nil error
IsRespOut(out) == out.err = NilErr /\ out.res.kind = "resp"

\* f returned a success: nil error, and no client or server error status
IsSuccessOut(out) == out.err = NilErr /\ (out.res.kind = "resp" => out.res.status < 400)

\* the named error of a status code
NamedErrorOf(status) ==
    CASE status = 400 -> "ErrBadRequest"
      [] status = 403 -> "ErrForbidden"
      [] status = 404 -> "ErrNotFound"
      [] status = 501 -> "ErrNotImplemented"
      [] OTHER -> "none"

\* the error e returned by Retry carries the named error: one entry of the
\* retry.Error log wraps it (its message is part of e.Error())
Identifies(e, name) == e.kind = "retry.Error" /\ \E i \in DOMAIN e.log : e.log[i].cause = name

\* every attempt made so far in the Run ended in a recoverable error
AllRecoverableSoFar == calls >= 1 /\ nRecov = calls

(***************************************************************************)
(* Properties                                                              *)
(***************************************************************************)
\* C1: once an attempt's outcome is classified Unrecoverable the operation
\* is not invoked again in that Run and the Run has returned a non-nil
\* error; when that attempt is the first one, GetCount() is 0.
C1_UnrecoverableStops ==
    unrecAt # 0 =>
        /\ pc = "done"
        /\ calls = unrecAt
        /\ retErr # NoError
        /\ (unrecAt = 1 => GetCount = 0)

\* C1 witness: an unrecoverable outcome on attempt 3, with budget left
C1_Witness == unrecAt = 3 /\ pc = "done" /\ calls < attempts

C3_ExhaustedCount ==
    (pc = "done" /\ AllRecoverableSoFar /\ calls = attempts) =>
        /\ retErr # NoError
        /\ GetCount = attempts - 1

\* C4: a 5xx response with a nil error is recoverable: Retry does not return
\* success for it and, while attempts remain, the Run goes on.
C4_ServerErrorRetried ==
    (calls >= 1 /\ IsRespOut(lastOut) /\ lastOut.res.status \in 500..599) =>
        /\ ~(pc = "done" /\ retErr = NoError)
        /\ (calls < attempts => pc # "done")

\* C5: a 4xx response with a nil error is unrecoverable: the Run ends at
\* that attempt with a non-nil error.
C5_ClientErrorStops ==
    (calls >= 1 /\ IsRespOut(lastOut) /\ lastOut.res.status \in 400..499) =>
        /\ pc = "done"
        /\ retErr # NoError

\* C6: the operation answering 500, 500, 200 is invoked exactly 3 times and
\* Retry returns the 200 response, a nil error, and GetCount() = 2.
C6_ScenarioB ==
    (opKind = "scriptB" /\ attempts >= 3 /\ pc = "done") =>
        /\ calls = 3
        /\ retErr = NoError
        /\ res = Resp(200)
        /\ GetCount = 2

C8_CancelDuringWait ==
    cancelWait1 =>
        /\ calls = 1
        /\ (pc = "done" => retErr.kind = "context.Canceled" /\ GetCount = 0)

\* C9: with retry.Attempts(k) in opts, k >= 1, the operation is invoked at
\* most k times in the Run.
C9_AttemptsOptionBounds == optAttempts >= 1 => calls <= optAttempts

\* C10: without options, a Run whose attempts all end in recoverable errors
\* makes exactly 5 invocations and never a 6th.
C10_DefaultFiveAttempts ==
    (optAttempts = 0 /\ AllRecoverableSoFar) =>
        /\ calls <= DocDefaultAttempts
        /\ (pc = "done" => calls = DocDefaultAttempts)

\* C12: after any sequence of completed Runs GetCount() is the number of
\* retries (invocations after the first) of the most recent Run only,
\* whatever earlier Runs did.
C12_NoLeakAcrossRuns == pc = "done" => GetCount = calls - 1

\* C13: the error of an exhausted Run is the error of its last attempt only,
\* not an aggregate of the errors of all attempts.
C13_LastErrorOnly ==
    (pc = "done" /\ AllRecoverableSoFar /\ calls = attempts) =>
        /\ retErr # NoError
        /\ Cardinality({i \in DOMAIN retErr.log : retErr.log[i] # NilErr}) = 1
        /\ \E i \in DOMAIN retErr.log : retErr.log[i] = lastOut.err

\* C13 (amended): the error of an exhausted Run is the retry.Error log with
\* one entry per attempt, in attempt order; its last entry is the error of
\* the last attempt (and its first the error of the first).
C13_ExhaustedReturnsLog ==
    (pc = "done" /\ AllRecoverableSoFar /\ calls = attempts) =>
        /\ retErr.kind = "retry.Error"
        /\ Len(retErr.log) = attempts
        /\ \A i \in DOMAIN retErr.log : retErr.log[i] # NilErr
        /\ retErr.log[attempts] = lastOut.err
        /\ retErr.log[1] = firstOut.err

\* C13 witness: an exhausted Run whose first and last errors differ
C13_Witness ==
    /\ pc = "done" /\ AllRecoverableSoFar /\ calls = attempts
    /\ firstOut.err = NewError("E1") /\ lastOut.err = NewError("E2")

\* C14: a raw error without a response is recoverable (the Run goes on while
\* attempts remain) unless the operation marked it unrecoverable, and then
\* the Run stops at that attempt with a non-nil error.
C14_RawErrorClassification ==
    (calls >= 1 /\ lastOut.err # NilErr /\ lastOut.res.kind # "resp") =>
        IF lastOut.err.marked
        THEN pc = "done" /\ retErr # NoError /\ unrecAt = calls
        ELSE /\ (calls < attempts => pc \in {"wait", "call"})
             /\ (calls = attempts => pc = "done" /\ retErr # NoError)

\* C14 witness: a raw error retried, then a marked error ending the Run
C14_Witness ==
    /\ pc = "done" /\ calls = 2
    /\ firstOut = [res |-> Zero, err |-> NewError("E2")]
    /\ lastOut = [res |-> Zero, err |-> Unrecoverable(NewError("E1"))]

\* C15: a Run that ends with an error (permanent or exhausted) returns the
\* zero value of the result type with it.
C15_ZeroValueOnFailure == (pc = "done" /\ retErr # NoError) => res = Zero

\* C15 (amended): a Run that ends with an error returns, with it, the value
\* the last attempt produced (the response itself for a 400, 403, 404 or 501).
C15_LastValueOnFailure == (pc = "done" /\ retErr # NoError) => res = lastOut.res

\* C15 witness: a Run ended by a 404 response returns that response
C15_Witness ==
    pc = "done" /\ retErr # NoError /\ lastOut = [res |-> Resp(404), err |-> NilErr] /\ res = Resp(404)

\* C16: an operation that succeeds on its first call (nil error and a
\* non-response value or a 2xx response) is invoked exactly once and Retry
\* returns its value, a nil error, and GetCount() = 0.
C16_FirstCallSuccess ==
    (calls >= 1 /\ firstOut.err = NilErr
        /\ (firstOut.res.kind = "resp" => firstOut.res.status \in 200..299)) =>
        /\ pc = "done"
        /\ calls = 1
        /\ retErr = NoError
        /\ res = firstOut.res
        /\ GetCount = 0

\* C16 witness: a value returned by the first call
C16_Witness == pc = "done" /\ calls = 1 /\ firstOut = [res |-> Value("a"), err |-> NilErr]

\* C17: a response with a nil error and a status outside 4xx and 5xx ends the
\* Run at that attempt with a nil error.
C17_OtherStatusIsSuccess ==
    (calls >= 1 /\ IsRespOut(lastOut) /\ lastOut.res.status \notin 400..599) =>
        /\ pc = "done"
        /\ retErr = NoError

\* C17 witness: a 301 on attempt 2 ends the Run with success
C17_Witness == pc = "done" /\ calls = 2 /\ lastOut = [res |-> Resp(301), err |-> NilErr]

\* terminal states of a Run
Succeeded == retErr = NoError
FailedPermanent == unrecAt # 0
FailedExhausted == AllRecoverableSoFar /\ calls = attempts

ExactlyOneTerminal ==
    /\ Succeeded \/ FailedPermanent \/ FailedExhausted
    /\ ~(Succeeded /\ FailedPermanent)
    /\ ~(Succeeded /\ FailedExhausted)
    /\ ~(FailedPermanent /\ FailedExhausted)

C19_ClassifyIsPure == [][calls' = calls + 1 => count' = count]_vars

\* the checked error of an outcome is a recoverable error
IsRecoverableOut(out) ==
    LET e == checkResAndErr(out.res, out.err).err IN e # NilErr /\ ~e.marked

\* C19 (amended): classifying an attempt's outcome changes the attempt count
\* by exactly one when the outcome is a recoverable error, and not at all
\* when it is a success or an unrecoverable error.
C19_ClassifyCounts ==
    [][calls' = calls + 1 =>
         count' = IF IsRecoverableOut(lastOut') THEN count + 1 ELSE count]_vars

\* C19 witness: the first attempt was classified recoverable
C19_Witness == pc = "wait" /\ calls = 1 /\ count = 1

Other(p) == CHOOSE q \in Procs : q # p

\* C11: two concurrent Runs have isolated attempt state: the count each Run
\* finds on completion is its own number of retries (invocations after the
\* first), whatever the other Run resets or attempts.
C11_IsolatedCounts == \A p \in Procs : cpc[p] = "done" => reported[p] = cn[p]

\* C11 (amended): two concurrent Runs share the one counter: the count a Run
\* finds on completion is at most the number of recoverable failures of both
\* Runs together, and it is the Run's own number when the other Run has not
\* started.
C11_SharedCount ==
    \A p \in Procs : cpc[p] = "done" =>
        /\ reported[p] <= cnRecov[1] + cnRecov[2]
        /\ (cpc[Other(p)] = "idle" => reported[p] = cnRecov[p])

\* C11 witness: both Runs finished and Run 1 found more than its own failures
C11_Witness == cpc[1] = "done" /\ cpc[2] = "done" /\ reported[1] > cnRecov[1] /\ cnRecov[1] >= 1

====
